---- MODULE Spec2Model ----
(***************************************************************************)
(* Model of src/src/Calculator.ts: a class with one private numeric field  *)
(* `value`, chainable mutators and three observers.                        *)
(*                                                                         *)
(* The field is an ECMAScript number, i.e. an IEEE 754 binary float.  The  *)
(* model keeps the IEEE structure (round to nearest, ties to even,         *)
(* gradual underflow, overflow to Infinity, NaN) and scales the format     *)
(* down: Precision significand bits, FracBits bits below the binary point  *)
(* and a largest binade EMax.  A finite number is the integer k that       *)
(* counts units of 2^(-FracBits).  +0 and -0 are one value: the code only  *)
(* compares with === and >, which do not tell them apart, and the register *)
(* is never used as a divisor.                                             *)
(***************************************************************************)
EXTENDS Integers, Sequences, FiniteSets, TLC

\* ------------------------------------------------------------------------
\* Bounds of the scaled-down number format
\* ------------------------------------------------------------------------
Precision == 4
FracBits == 1
EMax == 4

RECURSIVE Pow2(_)
Pow2(n) == IF n <= 0 THEN 1 ELSE 2 * Pow2(n - 1)

Abs(a) == IF a < 0 THEN -a ELSE a
Sgn(a) == IF a < 0 THEN -1 ELSE IF a > 0 THEN 1 ELSE 0

\* one unit of value 1.0, in units of k
One == Pow2(FracBits)
\* spacing of the largest binade, and the largest finite k
UlpMax == Pow2(EMax - Precision + 1 + FracBits)
MaxK == (Pow2(Precision) - 1) * UlpMax

\* spacing of representable numbers around magnitude a >= 0
RECURSIVE UlpFrom(_, _)
UlpFrom(a, u) == IF a < Pow2(Precision) * u THEN u ELSE UlpFrom(a, 2 * u)
Ulp(a) == UlpFrom(a, 1)

Representable(k) == Abs(k) <= MaxK /\ Abs(k) % Ulp(Abs(k)) = 0
FiniteK == {k \in -MaxK..MaxK : Representable(k)}

\* ------------------------------------------------------------------------
\* ECMAScript values of type number, and undefined
\* ------------------------------------------------------------------------
Fin(k) == [kind |-> "fin", k |-> k]
NaN == [kind |-> "nan", k |-> 0]
Infinity == [kind |-> "inf", k |-> 1]
NegInfinity == [kind |-> "inf", k |-> -1]
Undefined == [kind |-> "undef", k |-> 0]
Inf(s) == IF s < 0 THEN NegInfinity ELSE Infinity
\* the number n for an integer n
Num(n) == Fin(n * One)
Zero == Fin(0)

Number == {Fin(k) : k \in FiniteK} \cup {NaN, Infinity, NegInfinity}

IsNumber(x) == x.kind \in {"fin", "inf", "nan"}
IsFinite(x) == x.kind = "fin"
IsNaN(x) == x.kind = "nan"

\* ToNumber: undefined converts to NaN, a number to itself
ToNumber(x) == IF x.kind = "undef" THEN NaN ELSE x

\* x === y on numbers: NaN equals nothing, not even itself
StrictEquals(x, y) == IsNumber(x) /\ IsNumber(y) /\ ~IsNaN(x) /\ ~IsNaN(y) /\ x = y

\* ------------------------------------------------------------------------
\* Rounding of the exact rational a / b (b > 0, in units of k)
\* round to nearest, ties to even significand, overflow to Infinity
\* ------------------------------------------------------------------------
RoundPos(a, b) ==
    LET q == a \div b
        u == Ulp(q)
        lo == q - (q % u)
        hi == lo + u
        twice == 2 * (a - lo * b)
    IN  IF twice < u * b THEN lo
        ELSE IF twice > u * b THEN hi
        ELSE IF (lo \div u) % 2 = 0 THEN lo ELSE hi

Round(a, b) ==
    IF 2 * Abs(a) >= (2 * MaxK + UlpMax) * b
    THEN Inf(a)
    ELSE Fin(Sgn(a) * RoundPos(Abs(a), b))

\* ------------------------------------------------------------------------
\* The arithmetic operators of the language on numbers
\* ------------------------------------------------------------------------
Negate(x) ==
    IF x.kind = "fin" THEN Fin(-x.k)
    ELSE IF x.kind = "inf" THEN Inf(-x.k)
    ELSE NaN

\* x + y
NumAdd(x0, y0) ==
    LET x == ToNumber(x0)
        y == ToNumber(y0)
    IN  IF IsNaN(x) \/ IsNaN(y) THEN NaN
        ELSE IF x.kind = "inf" /\ y.kind = "inf"
             THEN (IF x.k = y.k THEN x ELSE NaN)
        ELSE IF x.kind = "inf" THEN x
        ELSE IF y.kind = "inf" THEN y
        ELSE Round(x.k + y.k, 1)

\* x - y
NumSubtract(x, y) == NumAdd(x, Negate(ToNumber(y)))

\* x * y
NumMultiply(x0, y0) ==
    LET x == ToNumber(x0)
        y == ToNumber(y0)
    IN  IF IsNaN(x) \/ IsNaN(y) THEN NaN
        ELSE IF x.kind = "inf" \/ y.kind = "inf"
             THEN (IF x.k = 0 \/ y.k = 0 THEN NaN ELSE Inf(Sgn(x.k) * Sgn(y.k)))
        ELSE Round(x.k * y.k, One)

\* x / y
NumDivide(x0, y0) ==
    LET x == ToNumber(x0)
        y == ToNumber(y0)
    IN  IF IsNaN(x) \/ IsNaN(y) THEN NaN
        ELSE IF x.kind = "inf"
             THEN (IF y.kind = "inf" THEN NaN
                   ELSE Inf(x.k * (IF y.k < 0 THEN -1 ELSE 1)))
        ELSE IF y.kind = "inf" THEN Zero
        ELSE IF y.k = 0
             THEN (IF x.k = 0 THEN NaN ELSE Inf(x.k))
        ELSE Round(Sgn(y.k) * x.k * One, Abs(y.k))

\* x % y for a finite non-zero y: the remainder takes the sign of the dividend
NumRemainder(x0, y0) ==
    LET x == ToNumber(x0)
        y == ToNumber(y0)
    IN  IF IsNaN(x) \/ IsNaN(y) \/ x.kind = "inf" THEN NaN
        ELSE IF y.kind = "inf" THEN x
        ELSE IF y.k = 0 THEN NaN
        ELSE Fin(Sgn(x.k) * (Abs(x.k) % Abs(y.k)))

\* x > y
NumGreater(x0, y0) ==
    LET x == ToNumber(x0)
        y == ToNumber(y0)
    IN  IF IsNaN(x) \/ IsNaN(y) THEN FALSE
        ELSE IF x.kind = "inf" THEN x.k > 0 /\ y # x
        ELSE IF y.kind = "inf" THEN y.k < 0
        ELSE x.k > y.k

\* ------------------------------------------------------------------------
\* State
\* ------------------------------------------------------------------------
\* value[i]  the private field `value` of Calculator instance i
\* call      the most recent call: method, receiver, argument, outcome
\* hist[i]   the calls made on instance i since `new Calculator()`, kept
\*           while they follow one of the documented test sequences
\* before    the registers as they were before the most recent call when
\*           that call was a successful add, subtract, multiply or divide
\*           (otherwise the registers as they are)
\* util      the most recent call of a helper function of utils.ts
VARIABLES value, call, hist, before, util

vars == <<value, call, hist, before, util>>

\* arguments a caller passes for a parameter of type number: the operands
\* of the documented tests, the smallest and the largest finite magnitude,
\* and the three non-finite numbers
Args ==
    {Num(n) : n \in {-5, -2, -1, 0, 1, 2, 3, 5, 10, 20}}
        \cup {Fin(1), Fin(MaxK), NaN, Infinity, NegInfinity}

NoError == "none"
DivisionByZero == "Division by zero"

\* what a call hands back
RetRef(i) == [type |-> "ref", ref |-> i, num |-> Zero, bool |-> FALSE]
RetNum(x) == [type |-> "num", ref |-> 0, num |-> x, bool |-> FALSE]
RetBool(b) == [type |-> "bool", ref |-> 0, num |-> Zero, bool |-> b]
RetVoid == [type |-> "void", ref |-> 0, num |-> Zero, bool |-> FALSE]
RetNone == [type |-> "none", ref |-> 0, num |-> Zero, bool |-> FALSE]

Returned(op, i, n, r) == [op |-> op, recv |-> i, arg |-> n, error |-> NoError, ret |-> r]
Threw(op, i, n, e) == [op |-> op, recv |-> i, arg |-> n, error |-> e, ret |-> RetNone]

Mutators == {"add", "subtract", "multiply", "divide", "setValue"}
Observers == {"getValue", "isEven", "isPositive"}

\* ------------------------------------------------------------------------
\* The documented call sequences on a default-constructed calculator, each
\* with the value its test expects from getValue() afterwards
\* ------------------------------------------------------------------------
Step(op, n) == [op |-> op, arg |-> n]

Tests ==
    { [calls |-> <<Step("add", Num(5))>>, expect |-> Num(5)],
      [calls |-> <<Step("add", Num(5)), Step("add", Num(3))>>, expect |-> Num(8)],
      [calls |-> <<Step("add", Num(-5))>>, expect |-> Num(-5)],
      [calls |-> <<Step("add", Num(10)), Step("subtract", Num(3))>>, expect |-> Num(7)],
      [calls |-> <<Step("subtract", Num(5))>>, expect |-> Num(-5)],
      [calls |-> <<Step("add", Num(10)), Step("subtract", Num(3)),
                   Step("subtract", Num(2))>>, expect |-> Num(5)],
      [calls |-> <<Step("add", Num(5)), Step("multiply", Num(3))>>, expect |-> Num(15)],
      [calls |-> <<Step("add", Num(5)), Step("multiply", Num(0))>>, expect |-> Num(0)],
      [calls |-> <<Step("add", Num(5)), Step("multiply", Num(-2))>>, expect |-> Num(-10)],
      [calls |-> <<Step("add", Num(2)), Step("multiply", Num(3)),
                   Step("multiply", Num(2))>>, expect |-> Num(12)],
      [calls |-> <<Step("add", Num(10)), Step("divide", Num(2))>>, expect |-> Num(5)],
      [calls |-> <<Step("add", Num(20)), Step("divide", Num(2)),
                   Step("divide", Num(2))>>, expect |-> Num(5)],
      [calls |-> <<Step("add", Num(10)), Step("multiply", Num(2)),
                   Step("subtract", Num(5)), Step("divide", Num(3))>>, expect |-> Num(5)],
      [calls |-> <<Step("add", Num(5)), Step("multiply", Num(2))>>, expect |-> Num(10)],
      [calls |-> <<Step("add", Num(5)), Step("multiply", Num(2)),
                   Step("subtract", Num(3))>>, expect |-> Num(7)],
      [calls |-> <<Step("add", Num(10)), Step("reset", Undefined),
                   Step("add", Num(5))>>, expect |-> Num(5)],
      [calls |-> <<Step("setValue", Num(10)), Step("add", Num(5))>>, expect |-> Num(15)] }

IsPrefix(s, t) == Len(s) <= Len(t) /\ SubSeq(t, 1, Len(s)) = s

Untracked == [on |-> FALSE, calls |-> <<>>]
Fresh == [on |-> TRUE, calls |-> <<>>]

\* the history after one more successful call c
Record(h, c) ==
    IF h.on /\ \E t \in Tests : IsPrefix(Append(h.calls, c), t.calls)
    THEN [on |-> TRUE, calls |-> Append(h.calls, c)]
    ELSE Untracked

\* no helper function has been called since the last Calculator call
NoHelperCall == [fn |-> "none"]

\* ------------------------------------------------------------------------
\* Initial states
\* ------------------------------------------------------------------------
\* beforeEach: calculator = new Calculator()
Init ==
    /\ value = (1 :> Zero)
    /\ call = Returned("constructor", 1, Undefined, RetRef(1))
    /\ hist = (1 :> Fresh)
    /\ before = value
    /\ util = NoHelperCall

\* ------------------------------------------------------------------------
\* Operations of the class
\* ------------------------------------------------------------------------
\* constructor(initialValue: number = 0); x = Undefined when the argument
\* is omitted.  The holder i is rebound to the new object.
\* constructor that ignores its argument
Calculator_constructor_ignoreArg(i, x) ==
    /\ value' = [value EXCEPT ![i] = Zero]
    /\ call' = Returned("constructor", i, x, RetRef(i))
    /\ hist' = [hist EXCEPT ![i] = IF x = Undefined THEN Fresh ELSE Untracked]

\* constructor without the default: an omitted argument is stored as it is
Calculator_constructor_noDefault(i, x) ==
    /\ value' = [value EXCEPT ![i] = x]
    /\ call' = Returned("constructor", i, x, RetRef(i))
    /\ hist' = [hist EXCEPT ![i] = IF x = Undefined THEN Fresh ELSE Untracked]


Calculator_constructor(i, x) ==
    /\ value' = [value EXCEPT ![i] = IF x = Undefined THEN Zero ELSE x]
    /\ call' = Returned("constructor", i, x, RetRef(i))
    /\ hist' = [hist EXCEPT ![i] = IF x = Undefined THEN Fresh ELSE Untracked]

\* add that leaves the receiver alone and returns an updated copy
Calculator_add_copy(i, n) ==
    LET j == CHOOSE m \in 1..(Cardinality(DOMAIN value) + 1) : m \notin DOMAIN value
    IN  /\ value' = value @@ (j :> NumAdd(value[i], n))
        /\ call' = Returned("add", i, n, RetRef(j))
        /\ hist' = hist @@ (j :> Untracked)


\* add on a register that is static, shared by every instance
Calculator_add_static(i, n) ==
    /\ value' = [j \in DOMAIN value |-> NumAdd(value[i], n)]
    /\ call' = Returned("add", i, n, RetRef(i))
    /\ hist' = [hist EXCEPT ![i] = Record(@, Step("add", n))]

\* add on an instance that a failed call has left broken: the call after a
\* throw on the same instance throws again
Calculator_add_sticky(i, n) ==
    IF call.error # NoError /\ call.recv = i
    THEN /\ call' = Threw("add", i, n, call.error)
         /\ UNCHANGED <<value, hist>>
    ELSE /\ value' = [value EXCEPT ![i] = NumAdd(@, n)]
         /\ call' = Returned("add", i, n, RetRef(i))
         /\ hist' = [hist EXCEPT ![i] = Record(@, Step("add", n))]

Calculator_add(i, n) ==
    /\ value' = [value EXCEPT ![i] = NumAdd(@, n)]
    /\ call' = Returned("add", i, n, RetRef(i))
    /\ hist' = [hist EXCEPT ![i] = Record(@, Step("add", n))]

\* subtract with the operands the wrong way round: value = n - value
Calculator_subtract_swapped(i, n) ==
    /\ value' = [value EXCEPT ![i] = NumSubtract(n, @)]
    /\ call' = Returned("subtract", i, n, RetRef(i))
    /\ hist' = [hist EXCEPT ![i] = Record(@, Step("subtract", n))]


Calculator_subtract(i, n) ==
    /\ value' = [value EXCEPT ![i] = NumSubtract(@, n)]
    /\ call' = Returned("subtract", i, n, RetRef(i))
    /\ hist' = [hist EXCEPT ![i] = Record(@, Step("subtract", n))]

\* multiply that computes the product and forgets to store it
Calculator_multiply_noStore(i, n) ==
    /\ value' = value
    /\ call' = Returned("multiply", i, n, RetRef(i))
    /\ hist' = [hist EXCEPT ![i] = Record(@, Step("multiply", n))]


\* multiply guarded by `if (n)`: a factor of 0 or NaN is skipped
Calculator_multiply_skipFalsy(i, n) ==
    /\ value' = [value EXCEPT ![i] =
                    IF StrictEquals(n, Zero) \/ IsNaN(n) THEN @ ELSE NumMultiply(@, n)]
    /\ call' = Returned("multiply", i, n, RetRef(i))
    /\ hist' = [hist EXCEPT ![i] = Record(@, Step("multiply", n))]

Calculator_multiply(i, n) ==
    /\ value' = [value EXCEPT ![i] = NumMultiply(@, n)]
    /\ call' = Returned("multiply", i, n, RetRef(i))
    /\ hist' = [hist EXCEPT ![i] = Record(@, Step("multiply", n))]

\* divide with the operands the wrong way round: value = n / value
Calculator_divide_swapped(i, n) ==
    IF StrictEquals(n, Zero)
    THEN /\ call' = Threw("divide", i, n, DivisionByZero)
         /\ UNCHANGED <<value, hist>>
    ELSE /\ value' = [value EXCEPT ![i] = NumDivide(n, @)]
         /\ call' = Returned("divide", i, n, RetRef(i))
         /\ hist' = [hist EXCEPT ![i] = Record(@, Step("divide", n))]


\* divide that updates the register before it looks at the divisor
Calculator_divide_checkLate(i, n) ==
    IF StrictEquals(n, Zero)
    THEN /\ value' = [value EXCEPT ![i] = NumDivide(@, n)]
         /\ call' = Threw("divide", i, n, DivisionByZero)
         /\ UNCHANGED hist
    ELSE /\ value' = [value EXCEPT ![i] = NumDivide(@, n)]
         /\ call' = Returned("divide", i, n, RetRef(i))
         /\ hist' = [hist EXCEPT ![i] = Record(@, Step("divide", n))]

\* divide guarded by `if (!n)`: NaN is rejected as well as 0
Calculator_divide_falsy(i, n) ==
    IF StrictEquals(n, Zero) \/ IsNaN(n)
    THEN /\ call' = Threw("divide", i, n, DivisionByZero)
         /\ UNCHANGED <<value, hist>>
    ELSE /\ value' = [value EXCEPT ![i] = NumDivide(@, n)]
         /\ call' = Returned("divide", i, n, RetRef(i))
         /\ hist' = [hist EXCEPT ![i] = Record(@, Step("divide", n))]


Calculator_divide(i, n) ==
    IF StrictEquals(n, Zero)
    THEN /\ call' = Threw("divide", i, n, DivisionByZero)
         /\ UNCHANGED <<value, hist>>
    ELSE /\ value' = [value EXCEPT ![i] = NumDivide(@, n)]
         /\ call' = Returned("divide", i, n, RetRef(i))
         /\ hist' = [hist EXCEPT ![i] = Record(@, Step("divide", n))]

Calculator_getValue(i) ==
    /\ call' = Returned("getValue", i, Undefined, RetNum(value[i]))
    /\ UNCHANGED <<value, hist>>

\* reset of a register that is static, shared by every instance
Calculator_reset_static(i) ==
    /\ value' = [j \in DOMAIN value |-> Zero]
    /\ call' = Returned("reset", i, Undefined, RetVoid)
    /\ hist' = [hist EXCEPT ![i] = Record(@, Step("reset", Undefined))]

\* reset that compares with 0 instead of assigning it
Calculator_reset_compare(i) ==
    /\ value' = value
    /\ call' = Returned("reset", i, Undefined, RetVoid)
    /\ hist' = [hist EXCEPT ![i] = Record(@, Step("reset", Undefined))]


Calculator_reset(i) ==
    /\ value' = [value EXCEPT ![i] = Zero]
    /\ call' = Returned("reset", i, Undefined, RetVoid)
    /\ hist' = [hist EXCEPT ![i] = Record(@, Step("reset", Undefined))]

Calculator_setValue(i, n) ==
    /\ value' = [value EXCEPT ![i] = n]
    /\ call' = Returned("setValue", i, n, RetRef(i))
    /\ hist' = [hist EXCEPT ![i] = Record(@, Step("setValue", n))]

\* isEven that reduces the register in place: this.value %= 2
Calculator_isEven_inPlace(i) ==
    /\ value' = [value EXCEPT ![i] = NumRemainder(@, Num(2))]
    /\ call' = Returned("isEven", i, Undefined,
                        RetBool(StrictEquals(NumRemainder(value[i], Num(2)), Zero)))
    /\ UNCHANGED hist

\* isEven written as value % 2 !== 1
Calculator_isEven_notOne(i) ==
    /\ call' = Returned("isEven", i, Undefined,
                        RetBool(~StrictEquals(NumRemainder(value[i], Num(2)), Num(1))))
    /\ UNCHANGED <<value, hist>>


Calculator_isEven(i) ==
    /\ call' = Returned("isEven", i, Undefined,
                        RetBool(StrictEquals(NumRemainder(value[i], Num(2)), Zero)))
    /\ UNCHANGED <<value, hist>>

\* isPositive written as value >= 0
Calculator_isPositive_orZero(i) ==
    /\ call' = Returned("isPositive", i, Undefined,
                        RetBool(NumGreater(value[i], Zero) \/ StrictEquals(value[i], Zero)))
    /\ UNCHANGED <<value, hist>>


Calculator_isPositive(i) ==
    /\ call' = Returned("isPositive", i, Undefined,
                        RetBool(NumGreater(value[i], Zero)))
    /\ UNCHANGED <<value, hist>>

Arithmetic == {"add", "subtract", "multiply", "divide"}

\* a helper function has been called and has not returned yet
HelperPending == util # NoHelperCall /\ ~util.done

\* bookkeeping of a Calculator call: it is made while no helper function is
\* running (one thread); remember the operand registers of a successful
\* arithmetic call; no helper function is involved
Track ==
    /\ ~HelperPending
    /\ before' = IF call'.op \in Arithmetic /\ call'.error = NoError
                 THEN value ELSE value'
    /\ util' = NoHelperCall

\* the public methods, called with arguments drawn from A
Methods(A) ==
    \/ \E i \in DOMAIN value, x \in A \cup {Undefined} : Calculator_constructor(i, x) /\ Track
    \/ \E i \in DOMAIN value, n \in A : Calculator_add(i, n) /\ Track
    \/ \E i \in DOMAIN value, n \in A : Calculator_subtract(i, n) /\ Track
    \/ \E i \in DOMAIN value, n \in A : Calculator_multiply(i, n) /\ Track
    \/ \E i \in DOMAIN value, n \in A : Calculator_divide(i, n) /\ Track
    \/ \E i \in DOMAIN value : Calculator_getValue(i) /\ Track
    \/ \E i \in DOMAIN value : Calculator_reset(i) /\ Track
    \/ \E i \in DOMAIN value, n \in A : Calculator_setValue(i, n) /\ Track
    \/ \E i \in DOMAIN value : Calculator_isEven(i) /\ Track
    \/ \E i \in DOMAIN value : Calculator_isPositive(i) /\ Track

Next == Methods(Args)

Spec == Init /\ [][Next]_vars

TypeOK ==
    /\ \A i \in DOMAIN value : value[i] \in Number
    /\ call.error \in {NoError, DivisionByZero}

\* ------------------------------------------------------------------------
\* src/src/utils.ts: the helper functions.  They are pure, so a call is
\* modelled in two steps: the initial state holds a pending call with its
\* arguments, the function's action computes the outcome.
\* ------------------------------------------------------------------------
\* longest string passed to isValidEmail and capitalize
MaxLen == 5

RECURSIVE StringsUpTo(_, _)
StringsUpTo(chars, n) ==
    IF n = 0 THEN {<<>>}
    ELSE LET shorter == StringsUpTo(chars, n - 1)
         IN  shorter \cup {Append(t, c) : t \in {u \in shorter : Len(u) = n - 1}, c \in chars}

\* --- add, subtract, multiply -------------------------------------------
PendingMath ==
    {[fn |-> f, a |-> a, b |-> b, done |-> FALSE] :
        f \in {"add", "subtract", "multiply"}, a \in Number, b \in Number}

MathResult(u, x) == [fn |-> u.fn, a |-> u.a, b |-> u.b, done |-> TRUE, out |-> x]

CalculatorUntouched == UNCHANGED <<value, call, hist, before>>

add(a, b) == NumAdd(a, b)

\* subtract that returns the distance between its operands: Math.abs(a - b)
subtract_abs(a, b) ==
    LET d == NumSubtract(a, b)
    IN  IF IsFinite(d) THEN Fin(Abs(d.k)) ELSE IF IsNaN(d) THEN NaN ELSE Infinity

subtract(a, b) == NumSubtract(a, b)

\* multiply pasted from add: a + b
multiply_pasted(a, b) == NumAdd(a, b)

multiply(a, b) == NumMultiply(a, b)

utils_add ==
    /\ util.fn = "add" /\ ~util.done
    /\ util' = MathResult(util, add(util.a, util.b))
    /\ CalculatorUntouched

utils_subtract ==
    /\ util.fn = "subtract" /\ ~util.done
    /\ util' = MathResult(util, subtract(util.a, util.b))
    /\ CalculatorUntouched

utils_multiply ==
    /\ util.fn = "multiply" /\ ~util.done
    /\ util' = MathResult(util, multiply(util.a, util.b))
    /\ CalculatorUntouched

\* --- getErrorMessage -----------------------------------------------------
\* values a `message` property can hold: a string, a number, undefined,
\* null, a plain object, or an object without prototype (Object.create(null))
JsStr(t) == [t |-> "string", s |-> t, n |-> 0]
JsNum(n) == [t |-> "number", s |-> "", n |-> n]
JsUndefined == [t |-> "undefined", s |-> "", n |-> 0]
JsNull == [t |-> "null", s |-> "", n |-> 0]
JsPlainObject == [t |-> "object", s |-> "", n |-> 0]
JsBareObject == [t |-> "bare", s |-> "", n |-> 0]

Messages ==
    {JsStr("Something went wrong"), JsStr("Custom error"), JsStr(""), JsNum(404),
     JsUndefined, JsNull, JsPlainObject, JsBareObject}

\* values that can be thrown and caught: an Error instance (its message
\* property is writable, so it can hold anything), a string, an object or
\* a function with or without a message property, null, undefined, a number
Thrown(shape, has, m, t) == [shape |-> shape, has |-> has, message |-> m, str |-> t]

Errors ==
    {Thrown("Error", TRUE, m, "") : m \in Messages}
        \cup {Thrown("string", FALSE, JsUndefined, t) : t \in {"Error string", ""}}
        \cup {Thrown("object", TRUE, m, "") : m \in Messages}
        \cup {Thrown("function", TRUE, m, "") : m \in {JsStr("Custom error")}}
        \cup {Thrown(sh, FALSE, JsUndefined, "") :
                 sh \in {"object", "function", "null", "undefined", "number"}}

\* error instanceof Error
InstanceOfError(e) == e.shape = "Error"

\* typeof error
TypeOf(e) ==
    CASE e.shape \in {"Error", "object", "null"} -> "object"
      [] e.shape = "string" -> "string"
      [] e.shape = "function" -> "function"
      [] e.shape = "undefined" -> "undefined"
      [] e.shape = "number" -> "number"

\* ToBoolean(error): null, undefined and the empty string are falsy
\* (the number modelled is 123)
Truthy(e) == ~(e.shape \in {"null", "undefined"} \/ (e.shape = "string" /\ e.str = ""))

\* String(v): [ok, s]; an object without toString and valueOf cannot be
\* converted and String throws a TypeError
Completed(v) == [threw |-> FALSE, val |-> v]
TypeError == [threw |-> TRUE, val |-> JsUndefined]

String(v) ==
    CASE v.t = "string" -> Completed(v)
      [] v.t = "number" -> Completed(JsStr(ToString(v.n)))
      [] v.t = "undefined" -> Completed(JsStr("undefined"))
      [] v.t = "null" -> Completed(JsStr("null"))
      [] v.t = "object" -> Completed(JsStr("[object Object]"))
      [] v.t = "bare" -> TypeError

UnknownError == JsStr("Unknown error")

\* getErrorMessage that inspects the message property before it tests for
\* an Error instance
getErrorMessage_objectFirst(e) ==
    IF Truthy(e) /\ TypeOf(e) = "object" /\ e.has THEN String(e.message)
    ELSE IF InstanceOfError(e) THEN Completed(e.message)
    ELSE IF TypeOf(e) = "string" THEN Completed(JsStr(e.str))
    ELSE Completed(UnknownError)

\* the body of getErrorMessage: its outcome for the caught value e
getErrorMessage(e) ==
    IF InstanceOfError(e) THEN Completed(e.message)
    ELSE IF TypeOf(e) = "string" THEN Completed(JsStr(e.str))
    ELSE IF Truthy(e) /\ TypeOf(e) = "object" /\ e.has THEN String(e.message)
    ELSE Completed(UnknownError)

PendingError == {[fn |-> "getErrorMessage", error |-> e, done |-> FALSE] : e \in Errors}

utils_getErrorMessage ==
    /\ util.fn = "getErrorMessage" /\ ~util.done
    /\ util' = [fn |-> util.fn, error |-> util.error, done |-> TRUE,
                out |-> getErrorMessage(util.error)]
    /\ CalculatorUntouched

\* --- isValidEmail --------------------------------------------------------
\* characters of an email candidate: an ordinary character, '@', '.', and
\* two white-space characters
EmailChars == {"u", "@", ".", " ", "\n"}
WhiteSpace == {" ", "\n"}

\* the character class [^\s@]
NotSpaceNorAt(c) == c \notin WhiteSpace /\ c # "@"

\* the pattern with the character classes written as [^\s]: an '@' is
\* let through inside the three parts
emailRegexStep_atInParts(q, c) ==
    LET part == c \notin WhiteSpace
    IN  CASE q = 0 -> IF part THEN {1} ELSE {}
          [] q = 1 -> (IF part THEN {1} ELSE {}) \cup (IF c = "@" THEN {2} ELSE {})
          [] q = 2 -> IF part THEN {3} ELSE {}
          [] q = 3 -> (IF part THEN {3} ELSE {}) \cup (IF c = "." THEN {4} ELSE {})
          [] q = 4 -> IF part THEN {5} ELSE {}
          [] q = 5 -> IF part THEN {5} ELSE {}

\* the pattern with the dot left unescaped: . matches any character but a
\* line terminator
emailRegexStep_anyChar(q, c) ==
    CASE q = 0 -> IF NotSpaceNorAt(c) THEN {1} ELSE {}
      [] q = 1 -> IF NotSpaceNorAt(c) THEN {1} ELSE IF c = "@" THEN {2} ELSE {}
      [] q = 2 -> IF NotSpaceNorAt(c) THEN {3} ELSE {}
      [] q = 3 -> (IF NotSpaceNorAt(c) THEN {3} ELSE {}) \cup (IF c # "\n" THEN {4} ELSE {})
      [] q = 4 -> IF NotSpaceNorAt(c) THEN {5} ELSE {}
      [] q = 5 -> IF NotSpaceNorAt(c) THEN {5} ELSE {}

\* /^[^\s@]+@[^\s@]+\.[^\s@]+$/ as an automaton: position q of the pattern
\* after a character c.  0: at ^, 1: in the first [^\s@]+, 2: after @,
\* 3: in the second [^\s@]+, 4: after \., 5: in the third [^\s@]+
emailRegexStep(q, c) ==
    CASE q = 0 -> IF NotSpaceNorAt(c) THEN {1} ELSE {}
      [] q = 1 -> IF NotSpaceNorAt(c) THEN {1} ELSE IF c = "@" THEN {2} ELSE {}
      [] q = 2 -> IF NotSpaceNorAt(c) THEN {3} ELSE {}
      [] q = 3 -> (IF NotSpaceNorAt(c) THEN {3} ELSE {}) \cup (IF c = "." THEN {4} ELSE {})
      [] q = 4 -> IF NotSpaceNorAt(c) THEN {5} ELSE {}
      [] q = 5 -> IF NotSpaceNorAt(c) THEN {5} ELSE {}

RECURSIVE emailRegexRun(_, _)
emailRegexRun(qs, text) ==
    IF text = <<>> THEN qs
    ELSE emailRegexRun(UNION {emailRegexStep(q, Head(text)) : q \in qs}, Tail(text))

\* emailRegex.test(email): anchored at both ends
isValidEmail(email) == 5 \in emailRegexRun({0}, email)

PendingEmail ==
    {[fn |-> "isValidEmail", email |-> t, done |-> FALSE] : t \in StringsUpTo(EmailChars, MaxLen)}

utils_isValidEmail ==
    /\ util.fn = "isValidEmail" /\ ~util.done
    /\ util' = [fn |-> util.fn, email |-> util.email, done |-> TRUE,
                out |-> isValidEmail(util.email)]
    /\ CalculatorUntouched

\* --- capitalize ----------------------------------------------------------
\* characters of a string to capitalize: a lower-case and an upper-case
\* letter, a letter whose upper case is two characters (sharp s, "sz"),
\* and a space
CapChars == {"a", "A", "sz", "S", " "}

\* c.toUpperCase() for a single character: a string
toUpperCase(c) ==
    CASE c = "a" -> <<"A">>
      [] c = "sz" -> <<"S", "S">>
      [] OTHER -> <<c>>

\* c.toLowerCase() for a single character
toLowerCase(c) ==
    CASE c = "A" -> <<"a">>
      [] c = "S" -> <<"s">>
      [] OTHER -> <<c>>

RECURSIVE MapChars(_, _)
MapChars(F(_), str) ==
    IF str = <<>> THEN <<>> ELSE F(Head(str)) \o MapChars(F, Tail(str))

\* str.slice(1)
Slice1(str) == SubSeq(str, 2, Len(str))

\* capitalize that also lower-cases the rest of the string
capitalize_lowerRest(str) ==
    IF str = <<>> THEN str
    ELSE toUpperCase(str[1]) \o MapChars(toLowerCase, Slice1(str))

\* capitalize that forgets slice(1): the whole string follows the
\* upper-cased first character
capitalize_noSlice(str) ==
    IF str = <<>> THEN str
    ELSE toUpperCase(str[1]) \o str

capitalize(str) ==
    IF str = <<>> THEN str
    ELSE toUpperCase(str[1]) \o Slice1(str)

PendingCapitalize ==
    {[fn |-> "capitalize", str |-> t, done |-> FALSE] : t \in StringsUpTo(CapChars, MaxLen)}

utils_capitalize ==
    /\ util.fn = "capitalize" /\ ~util.done
    /\ util' = [fn |-> util.fn, str |-> util.str, done |-> TRUE,
                out |-> capitalize(util.str)]
    /\ CalculatorUntouched

\* --- the helper functions on their own -----------------------------------
InitUtils ==
    /\ value = (1 :> Zero)
    /\ call = Returned("constructor", 1, Undefined, RetRef(1))
    /\ hist = (1 :> Fresh)
    /\ before = value
    /\ util \in PendingMath \cup PendingError \cup PendingEmail \cup PendingCapitalize

NextUtils ==
    \/ utils_add
    \/ utils_subtract
    \/ utils_multiply
    \/ utils_getErrorMessage
    \/ utils_isValidEmail
    \/ utils_capitalize

SpecUtils == InitUtils /\ [][NextUtils]_vars

\* --- two calculators and the helper functions in one program ------------
\* arguments of the calls on two calculators: zero (so that divide can
\* fail) and the largest finite number, from which the operations reach
\* 1, the infinities and NaN within a few calls
ArgsTwo == {Zero, Fin(MaxK)}

\* the helper calls the program makes, one per function, as in
\* utils.test.ts
PendingTwo ==
    { [fn |-> "add", a |-> Num(2), b |-> Num(3), done |-> FALSE],
      [fn |-> "subtract", a |-> Num(5), b |-> Num(3), done |-> FALSE],
      [fn |-> "multiply", a |-> Num(3), b |-> Num(4), done |-> FALSE],
      [fn |-> "getErrorMessage",
       error |-> Thrown("Error", TRUE, JsStr("Something went wrong"), ""),
       done |-> FALSE],
      [fn |-> "isValidEmail", email |-> <<"u", "@", "u", ".", "u">>, done |-> FALSE],
      [fn |-> "capitalize", str |-> <<"a", "a">>, done |-> FALSE] }

\* the program reaches a call of a helper function with its arguments
utils_call(P) ==
    /\ ~HelperPending
    /\ util' \in P
    /\ CalculatorUntouched

\* const a = new Calculator(); const b = new Calculator()
InitTwo ==
    /\ value = (1 :> Zero) @@ (2 :> Zero)
    /\ call = Returned("constructor", 2, Undefined, RetRef(2))
    /\ hist = (1 :> Fresh) @@ (2 :> Fresh)
    /\ before = value
    /\ util = NoHelperCall

NextTwo ==
    \/ Methods(ArgsTwo)
    \/ utils_call(PendingTwo)
    \/ NextUtils

SpecTwo == InitTwo /\ [][NextTwo]_vars

\* --- two calculators given the same calls --------------------------------
\* The first instance is called with any operation and argument, then the
\* second instance is given the same call.  With skipFailed, a call that
\* threw on the first instance is left out of the calls of the second.
Turn(skipFailed) ==
    IF call.recv = 2 \/ (skipFailed /\ call.error # NoError) THEN 1 ELSE 2

\* the call just made on the second instance repeats the last call of the
\* first
Repeats(i) == i = 2 => (call'.op = call.op /\ call'.arg = call.arg)

MethodsInLockstep(A, skipFailed) ==
    \/ \E i \in {Turn(skipFailed)}, x \in A \cup {Undefined} :
            Calculator_constructor(i, x) /\ Track /\ Repeats(i)
    \/ \E i \in {Turn(skipFailed)}, n \in A : Calculator_add(i, n) /\ Track /\ Repeats(i)
    \/ \E i \in {Turn(skipFailed)}, n \in A : Calculator_subtract(i, n) /\ Track /\ Repeats(i)
    \/ \E i \in {Turn(skipFailed)}, n \in A : Calculator_multiply(i, n) /\ Track /\ Repeats(i)
    \/ \E i \in {Turn(skipFailed)}, n \in A : Calculator_divide(i, n) /\ Track /\ Repeats(i)
    \/ \E i \in {Turn(skipFailed)} : Calculator_getValue(i) /\ Track /\ Repeats(i)
    \/ \E i \in {Turn(skipFailed)} : Calculator_reset(i) /\ Track /\ Repeats(i)
    \/ \E i \in {Turn(skipFailed)}, n \in A : Calculator_setValue(i, n) /\ Track /\ Repeats(i)
    \/ \E i \in {Turn(skipFailed)} : Calculator_isEven(i) /\ Track /\ Repeats(i)
    \/ \E i \in {Turn(skipFailed)} : Calculator_isPositive(i) /\ Track /\ Repeats(i)

\* both instances get every call
NextSame == MethodsInLockstep(Args, FALSE)

SpecSame == InitTwo /\ [][NextSame]_vars

\* the second instance gets every call but the failed ones
NextSkip == MethodsInLockstep(Args, TRUE)

SpecSkip == InitTwo /\ [][NextSkip]_vars

\* ------------------------------------------------------------------------
\* Claims
\* ------------------------------------------------------------------------

\* C1: divide(0) fails with the division-by-zero error and leaves the
\* register of every instance as it was before the call.
C1_DivideByZeroRejected ==
    [][(call'.op = "divide" /\ StrictEquals(call'.arg, Zero))
         => (call'.error = DivisionByZero /\ value' = value)]_vars

C1_Witness ==
    /\ call.op = "divide"
    /\ call.error = DivisionByZero
    /\ value[call.recv] = Num(5)

\* C2: no call fails except divide with a divisor equal to 0; every other
\* call, and divide with any other divisor, completes without an error.
C2_OnlyDivideByZeroFails ==
    call.error # NoError => (call.op = "divide" /\ StrictEquals(call.arg, Zero))

C2_Witness ==
    /\ call.op = "divide"
    /\ call.arg = NaN
    /\ call.error = NoError

\* C3: a successful add(n), subtract(n), multiply(n), divide(n) leaves the
\* register at v + n, v - n, v * n, v / n in the arithmetic of the
\* language (and at the exact sum, difference, product, quotient whenever
\* that is a representable number); setValue(n) leaves it at n.
C3_MutatorResults ==
    [][LET r == call'.recv
           op == call'.op
           n == call'.arg
           v == value[r]
           w == value'[r]
           exact == IsFinite(v) /\ IsFinite(n)
       IN  (op \in Mutators /\ call'.error = NoError) =>
             /\ op = "add" => w = NumAdd(v, n)
             /\ op = "subtract" => w = NumSubtract(v, n)
             /\ op = "multiply" => w = NumMultiply(v, n)
             /\ op = "divide" => w = NumDivide(v, n)
             /\ op = "setValue" => w = n
             /\ (op = "add" /\ exact /\ Representable(v.k + n.k))
                  => w = Fin(v.k + n.k)
             /\ (op = "subtract" /\ exact /\ Representable(v.k - n.k))
                  => w = Fin(v.k - n.k)
             /\ (op = "multiply" /\ exact)
                  => \A k \in FiniteK : (k * One = v.k * n.k) => w = Fin(k)
             /\ (op = "divide" /\ exact)
                  => \A k \in FiniteK : (k * n.k = v.k * One) => w = Fin(k)]_vars

C3_Witness ==
    /\ call.op = "subtract"
    /\ call.error = NoError
    /\ call.arg = Num(3)
    /\ value[call.recv] = Num(7)

\* C4: every successful mutator returns a reference to the instance it was
\* called on and creates no other instance.
C4_MutatorsReturnSelf ==
    [][(call'.op \in Mutators /\ call'.error = NoError)
         => (call'.ret = RetRef(call'.recv) /\ DOMAIN value' = DOMAIN value)]_vars

C4_Witness ==
    /\ call.op = "add"
    /\ call.ret = RetRef(call.recv)
    /\ hist[call.recv].on
    /\ Len(hist[call.recv].calls) = 2
    /\ value[call.recv] = Num(15)

\* the Effect column of the operation table: the register after a call of
\* op with argument n on a register holding v
Effect(op, v, n) ==
    CASE op = "add" -> NumAdd(v, n)
      [] op = "subtract" -> NumSubtract(v, n)
      [] op = "multiply" -> NumMultiply(v, n)
      [] op = "divide" -> IF StrictEquals(n, Zero) THEN v ELSE NumDivide(v, n)
      [] op = "setValue" -> n
      [] op = "reset" -> Zero
      [] OTHER -> v

\* left-to-right application of a call sequence to the register v
RECURSIVE ApplyAll(_, _)
ApplyAll(calls, v) ==
    IF calls = <<>> THEN v
    ELSE ApplyAll(Tail(calls), Effect(Head(calls).op, v, Head(calls).arg))

\* the chained calculation of the tests: add(10).multiply(2).subtract(5).divide(3)
Chained ==
    <<Step("add", Num(10)), Step("multiply", Num(2)),
      Step("subtract", Num(5)), Step("divide", Num(3))>>

\* C5: the register after a sequence of successful calls on a default
\* calculator is the left-to-right application of the sequence to 0, failed
\* divide(0) calls and observers in between not counting; each documented
\* sequence ends at the value its test expects, and
\* add(10), multiply(2), subtract(5), divide(3) ends at 5.
C5_CallsComposeInOrder ==
    \A i \in DOMAIN value :
        hist[i].on =>
            /\ value[i] = ApplyAll(hist[i].calls, Zero)
            /\ \A t \in Tests :
                 hist[i].calls = t.calls => StrictEquals(value[i], t.expect)
            /\ hist[i].calls = Chained => value[i] = Num(5)

C5_Witness ==
    /\ hist[1].on
    /\ hist[1].calls = Chained
    /\ value[1] = Num(5)
    /\ call.op = "getValue"
    /\ call.ret = RetNum(Num(5))

\* C6: reset() leaves the register of the same instance at 0 whatever it
\* held, returns nothing, and the next call on that instance has the effect
\* and the result it has on a default-constructed calculator.
C6_ResetToZero ==
    [][LET r == call'.recv
           op == call'.op
       IN  /\ op = "reset" =>
                /\ StrictEquals(value'[r], Zero)
                /\ call'.ret = RetVoid
                /\ call'.error = NoError
                /\ DOMAIN value' = DOMAIN value
           /\ (call.op = "reset" /\ r = call.recv /\ op # "constructor") =>
                /\ value'[r] = Effect(op, Zero, call'.arg)
                /\ op = "getValue" => call'.ret = RetNum(Zero)
                /\ op = "isEven" => call'.ret = RetBool(TRUE)
                /\ op = "isPositive" => call'.ret = RetBool(FALSE)
                /\ op \in Mutators =>
                     (call'.error = NoError <=> ~StrictEquals(call'.arg, Zero)
                                                  \/ op # "divide")]_vars

C6_Witness ==
    /\ hist[1].on
    /\ hist[1].calls = <<Step("add", Num(10)), Step("reset", Undefined),
                         Step("add", Num(5))>>
    /\ value[1] = Num(5)

\* C7: a calculator constructed without an argument holds 0, one
\* constructed with x holds x, and getValue() called next returns it.
C7_ConstructorSetsValue ==
    [][LET r == call'.recv
           initial(x) == IF x = Undefined THEN Zero ELSE x
       IN  /\ call'.op = "constructor" => value'[r] = initial(call'.arg)
           /\ (call.op = "constructor" /\ call'.op = "getValue" /\ r = call.recv)
                => call'.ret = RetNum(initial(call.arg))]_vars

C7_Witness ==
    /\ call.op = "constructor"
    /\ call.arg = Num(10)
    /\ value[call.recv] = Num(10)

\* C8: in every reachable state the register of every instance holds a
\* number (finite, infinite or NaN), never undefined.
C8_ValueAlwaysDefined ==
    \A i \in DOMAIN value : IsNumber(value[i])

C8_Witness ==
    /\ call.op = "divide"
    /\ call.error = DivisionByZero
    /\ value[call.recv] = Num(-5)

\* C9: getValue(), isEven() and isPositive() leave every register as it
\* was, and getValue() returns the register of its receiver.
C9_ObserversArePure ==
    [][call'.op \in Observers =>
         /\ value' = value
         /\ call'.error = NoError
         /\ call'.op = "getValue" => call'.ret = RetNum(value[call'.recv])]_vars

C9_Witness ==
    /\ call.op = "isPositive"
    /\ call.ret = RetBool(TRUE)
    /\ value[call.recv] = Num(7)

\* C10: isEven() returns true exactly when the register is a finite whole
\* multiple of 2 (zero and negative evens included), and false for odd
\* values, fractions, NaN and the infinities.
C10_IsEven ==
    [][call'.op = "isEven" =>
         LET v == value[call'.recv]
             even == /\ IsFinite(v)
                     /\ \E m \in -MaxK..MaxK : v.k = 2 * m * One
         IN  call'.ret = RetBool(even)]_vars

C10_Witness ==
    /\ call.op = "isEven"
    /\ call.ret = RetBool(TRUE)
    /\ value[call.recv] = Num(-4)

\* C11: isPositive() returns true exactly when the register is greater than
\* 0 (a positive finite number or Infinity), and false for 0, for negative
\* values and for NaN.
C11_IsPositive ==
    [][call'.op = "isPositive" =>
         LET v == value[call'.recv]
             positive == \/ IsFinite(v) /\ v.k >= 1
                         \/ v = Infinity
         IN  call'.ret = RetBool(positive)]_vars

C11_Witness ==
    /\ call.op = "isPositive"
    /\ call.ret = RetBool(FALSE)
    /\ value[call.recv] = Zero
    /\ hist[call.recv] = Untracked

\* x is within floating-point tolerance of v: both finite and the relative
\* error at most the machine epsilon 2^(1 - Precision)
WithinTolerance(x, v) ==
    /\ IsFinite(x)
    /\ IsFinite(v)
    /\ Abs(x.k - v.k) * Pow2(Precision - 1) <= Abs(v.k)

\* a finite number that is not subnormal
IsNormal(x) == IsFinite(x) /\ Abs(x.k) >= Pow2(Precision - 1)

\* this step is multiply(n) made right after a successful divide(n) on the
\* same instance
DivideThenMultiply ==
    /\ call.op = "divide"
    /\ call.error = NoError
    /\ call'.op = "multiply"
    /\ call'.recv = call.recv
    /\ call'.arg = call.arg

\* C12 as stated: for every n other than 0 and every register value v,
\* divide(n) followed immediately by multiply(n) leaves the register within
\* tolerance of v.
C12_Original ==
    [][DivideThenMultiply =>
         WithinTolerance(value'[call.recv], before[call.recv])]_vars

\* C12 amended: for finite v and finite n other than 0, when the quotient
\* is 0 only for v = 0 and is otherwise a normal number, and the product is
\* finite, divide(n) followed immediately by multiply(n) leaves the
\* register within tolerance of v.
C12_DivideMultiplyRoundTrip ==
    [][(/\ DivideThenMultiply
        /\ IsFinite(before[call.recv])
        /\ IsFinite(call.arg)
        /\ before[call.recv] = Zero \/ IsNormal(value[call.recv])
        /\ IsFinite(value'[call.recv]))
         => WithinTolerance(value'[call.recv], before[call.recv])]_vars

\* after 10 / 3 * 3: the quotient was rounded, the product is 10 again
C12_Witness ==
    /\ call.op = "multiply"
    /\ call.arg = Num(3)
    /\ before[call.recv] = NumDivide(Num(10), Num(3))
    /\ before[call.recv].k * 3 # 10 * One
    /\ value[call.recv] = Num(10)

\* C13 as stated: getErrorMessage never throws and always returns a string,
\* whatever it is given.
C13_NeverThrowsAlwaysString ==
    (util.fn = "getErrorMessage" /\ util.done) =>
        (~util.out.threw /\ util.out.val.t = "string")

\* C14 as stated: an Error instance yields its message; otherwise a string
\* is returned unchanged; otherwise a non-null object with a message
\* property yields that property coerced to a string; anything else yields
\* "Unknown error".
C14_ResolutionOrder ==
    (util.fn = "getErrorMessage" /\ util.done) =>
        LET e == util.error
            out == util.out
        IN  /\ ~out.threw
            /\ e.shape = "Error" => out.val = e.message
            /\ e.shape = "string" => out.val = JsStr(e.str)
            /\ (e.shape = "object" /\ e.has) =>
                 /\ out.val.t = "string"
                 /\ e.message.t = "string" => out.val = e.message
                 /\ e.message = JsNum(404) => out.val = JsStr("404")
                 /\ e.message = JsNull => out.val = JsStr("null")
            /\ (e.shape \in {"null", "undefined", "number", "function"}
                  \/ (e.shape = "object" /\ ~e.has)) => out.val = UnknownError

\* C15: an Error instance is handled by the Error branch although it is
\* also an object with a message property: the call returns the message
\* field as it is, not its String coercion (and does not throw where the
\* coercion would).
C15_ErrorBranchFirst ==
    (util.fn = "getErrorMessage" /\ util.done /\ util.error.shape = "Error") =>
        /\ util.error.has
        /\ util.out = Completed(util.error.message)

C15_Witness ==
    /\ util.fn = "getErrorMessage"
    /\ util.done
    /\ util.error.shape = "Error"
    /\ util.error.message = JsNum(404)
    /\ util.out.val = JsNum(404)
    /\ util.out.val # JsStr("404")

\* C16: isValidEmail(text) is true exactly when text is local@domain.tld
\* with the three parts non-empty and free of white space and '@' (the
\* parts may contain dots); so no '@', no dot after it, an empty part, any
\* white space or the empty string are rejected.
C16_EmailShape ==
    (util.fn = "isValidEmail" /\ util.done) =>
        LET t == util.email
            shaped ==
                \E i \in 1..Len(t), j \in 1..Len(t) :
                    /\ t[i] = "@"
                    /\ t[j] = "."
                    /\ 1 < i /\ i + 1 < j /\ j < Len(t)
                    /\ \A p \in 1..Len(t) :
                         p # i => (t[p] \notin WhiteSpace /\ t[p] # "@")
        IN  /\ util.out = shaped
            /\ t = <<"u", "@", "u", ".", "u">> => util.out = TRUE
            /\ t \in {<<>>, <<"u", "@", "u">>, <<"@", "u", ".", "u">>, <<"u", "@">>,
                      <<"u", " ", "@", "u", ".">>, <<"u", "u">>} => util.out = FALSE

C16_Witness ==
    /\ util.fn = "isValidEmail"
    /\ util.done
    /\ util.email = <<"u", "@", ".", ".", "u">>
    /\ util.out = TRUE

\* C17: capitalize returns the empty string unchanged; for a non-empty
\* string it returns the upper case of the first character followed by the
\* remaining characters exactly as given.
C17_Capitalize ==
    (util.fn = "capitalize" /\ util.done) =>
        LET t == util.str
            out == util.out
            shift == Len(out) - Len(t)
        IN  /\ t = <<>> => out = <<>>
            /\ t # <<>> =>
                 /\ shift >= 0
                 /\ SubSeq(out, 1, shift + 1) = toUpperCase(t[1])
                 /\ \A p \in 2..Len(t) : out[p + shift] = t[p]
                 /\ t[1] = "a" => out[1] = "A"
                 /\ t[1] \in {"A", "S", " "} => out = t

C17_Witness ==
    /\ util.fn = "capitalize"
    /\ util.done
    /\ util.str = <<"a", "A", "a">>
    /\ util.out = <<"A", "A", "a">>

\* C18 as stated: for all numbers a, b: add(a, b) == add(b, a) and
\* subtract(a, b) == -subtract(b, a).
C18_Original ==
    (util.fn \in {"add", "subtract"} /\ util.done) =>
        /\ util.fn = "add" => StrictEquals(util.out, add(util.b, util.a))
        /\ util.fn = "subtract" =>
             StrictEquals(util.out, Negate(subtract(util.b, util.a)))

\* C18 amended: add(a, b) == add(b, a) whenever a + b is not NaN, and
\* subtract(a, b) == -subtract(b, a) whenever a - b is not NaN; when the
\* result is NaN both sides are NaN.
C18_Commutativity ==
    (util.fn \in {"add", "subtract"} /\ util.done) =>
        LET other == IF util.fn = "add" THEN add(util.b, util.a)
                     ELSE Negate(subtract(util.b, util.a))
        IN  IF IsNaN(util.out) THEN IsNaN(other)
            ELSE StrictEquals(util.out, other)

C18_Witness ==
    /\ util.fn = "subtract"
    /\ util.done
    /\ util.a = Num(3)
    /\ util.b = Num(5)
    /\ util.out = Num(-2)

\* the identities the tests assert, with === as toBe compares numbers
MathIdentities ==
    /\ (util.fn = "add" /\ util.b = Zero) => StrictEquals(util.out, util.a)
    /\ (util.fn = "add" /\ util.a = Zero) => StrictEquals(util.out, util.b)
    /\ (util.fn = "subtract" /\ util.b = Zero) => StrictEquals(util.out, util.a)
    /\ (util.fn = "multiply" /\ util.b = Num(1)) => StrictEquals(util.out, util.a)
    /\ (util.fn = "multiply" /\ util.b = Zero) => StrictEquals(util.out, Zero)

\* the result is the exact sum, difference or product whenever the operands
\* are finite and the exact result is a representable number
MathExact ==
    (IsFinite(util.a) /\ IsFinite(util.b)) =>
        /\ (util.fn = "add" /\ Representable(util.a.k + util.b.k))
             => util.out = Fin(util.a.k + util.b.k)
        /\ (util.fn = "subtract" /\ Representable(util.a.k - util.b.k))
             => util.out = Fin(util.a.k - util.b.k)
        /\ util.fn = "multiply"
             => \A k \in FiniteK : (k * One = util.a.k * util.b.k) => util.out = Fin(k)

\* C19 as stated: add, subtract and multiply are a + b, a - b and a * b for
\* every pair of operands, with add(a,0) = add(0,a) = a, subtract(a,0) = a,
\* multiply(a,1) = a and multiply(a,0) = 0.
C19_Original ==
    (util.fn \in {"add", "subtract", "multiply"} /\ util.done) =>
        (IsNumber(util.out) /\ MathExact /\ MathIdentities)

\* C19 amended: add, subtract and multiply return a number for every pair of
\* operands, the exact result when it is representable; add(a,0) =
\* add(0,a) = a, subtract(a,0) = a and multiply(a,1) = a for every a that
\* is not NaN, and multiply(a,0) = 0 for every finite a.
C19_MathHelpers ==
    (util.fn \in {"add", "subtract", "multiply"} /\ util.done) =>
        /\ IsNumber(util.out)
        /\ MathExact
        /\ (~IsNaN(util.a) /\ ~IsNaN(util.b) /\ (util.fn = "multiply" => IsFinite(util.a)))
             => MathIdentities
        /\ (util.fn = "multiply" /\ util.a = Num(3) /\ util.b = Num(4)) => util.out = Num(12)
        /\ (util.fn = "add" /\ util.a = Num(-2) /\ util.b = Num(-3)) => util.out = Num(-5)

C19_Witness ==
    /\ util.fn = "multiply"
    /\ util.done
    /\ util.a = Num(5)
    /\ util.b = Zero
    /\ util.out = Zero

\* C20: Calculator instances share no state.  With two instances and any
\* interleaving of calls, a call on one instance (reset and a failing
\* divide(0) included) leaves the value of the other instance as it was,
\* and a call of a helper function leaves the value of every instance as
\* it was.
HelperStep == util' # util /\ util' # NoHelperCall

C20_InstancesIndependent ==
    [][ IF HelperStep
        THEN value' = value
        ELSE /\ DOMAIN value' = DOMAIN value
             /\ \A j \in DOMAIN value \ {call'.recv} : value'[j] = value[j] ]_vars

\* a failing divide(0) on one instance, then a helper call, while the two
\* instances hold different values
C20_Witness ==
    /\ DOMAIN value = {1, 2}
    /\ call.op = "divide" /\ call.error = DivisionByZero /\ call.recv = 1
    /\ value[1] = Fin(MaxK) /\ value[2] = Num(1)
    /\ util.fn = "capitalize" /\ util.done

\* a reset of one instance while the other holds a value other than 0
C20_WitnessReset ==
    /\ DOMAIN value = {1, 2}
    /\ call.op = "reset" /\ call.recv = 2
    /\ value[1] = Infinity /\ value[2] = Zero

\* this step is the second instance repeating the last call of the first
Repeated == call.recv = 1 /\ call'.recv = 2

\* the call of this step ended as the call before it did: the same
\* failure or the same returned number or boolean, and the register of the
\* second instance now holds what the register of the first held after
\* its call
SameOutcome ==
    /\ call'.error = call.error
    /\ call'.ret.type = call.ret.type
    /\ call'.ret.num = call.ret.num
    /\ call'.ret.bool = call.ret.bool
    /\ value'[2] = value[1]

\* C21: Calculator behaviour is deterministic.  Two instances started from
\* the same initial value and given the same sequence of operations and
\* arguments return the same getValue(), isEven() and isPositive() results
\* after every step, hold the same value, and fail at the same steps.
C21_Deterministic ==
    [][Repeated => SameOutcome]_vars

\* both instances have failed on divide(0) after add(10), and hold 10
C21_Witness ==
    /\ call.recv = 2
    /\ call.op = "divide"
    /\ call.error = DivisionByZero
    /\ value[1] = Num(10) /\ value[2] = Num(10)
    /\ hist[1] = hist[2]
    /\ hist[2].calls = <<Step("add", Num(10))>>

\* C22: a failed divide(0) is not sticky.  After divide(0) throws, the
\* instance is still usable: its next call throws only if it is divide(0)
\* again; and it behaves from then on as an instance that was given the
\* same calls without the failed ones: same failures, same results, same
\* register.
C22_FailedDivideNotSticky ==
    [][ /\ (call.error # NoError /\ call.recv = 1 /\ call'.recv = 1)
             => (call'.error # NoError <=> (call'.op = "divide" /\ call'.arg = Zero))
        /\ call'.error # NoError => (call'.recv = 1 /\ value' = value)
        /\ Repeated => SameOutcome ]_vars

\* the first instance has just failed on divide(0) after add(10); the
\* second was given add(10) only, and both hold 10
C22_Witness ==
    /\ call.recv = 1
    /\ call.op = "divide"
    /\ call.error = DivisionByZero
    /\ value[1] = Num(10) /\ value[2] = Num(10)
    /\ hist[1].calls = <<Step("add", Num(10))>>
    /\ hist[2].calls = <<Step("add", Num(10))>>

\* this step is the call `second`(n) made right after a successful
\* `first`(n) on the same instance
Consecutive(first, second) ==
    /\ call.op = first
    /\ call.error = NoError
    /\ call'.op = second
    /\ call'.recv = call.recv
    /\ call'.arg = call.arg

MultiplyByZero == call'.op = "multiply" /\ call'.arg = Zero

\* the last arithmetic call computed its result without rounding or
\* overflow: operands and result finite, result the exact sum or difference
ExactSoFar(sign) ==
    /\ IsFinite(before[call.recv])
    /\ IsFinite(call.arg)
    /\ IsFinite(value[call.recv])
    /\ value[call.recv].k = before[call.recv].k + sign * call.arg.k

\* C23 as stated: for every register value v and every n, add(n) followed
\* by subtract(n), and subtract(n) followed by add(n), returns the register
\* to v, and multiply(0) leaves the register at 0 whatever v was.
C23_Original ==
    [][ /\ (Consecutive("add", "subtract") \/ Consecutive("subtract", "add"))
             => value'[call.recv] = before[call.recv]
        /\ MultiplyByZero => value'[call'.recv] = Zero ]_vars

\* C23 amended: for finite v and n whose sum (difference) is computed
\* without rounding or overflow, add(n) followed by subtract(n)
\* (subtract(n) followed by add(n)) returns the register to v; multiply(0)
\* leaves the register at 0 when v is finite and at NaN when v is an
\* infinity or NaN.
C23_AddSubtractRoundTrip ==
    [][ /\ (Consecutive("add", "subtract") /\ ExactSoFar(1))
             => value'[call.recv] = before[call.recv]
        /\ (Consecutive("subtract", "add") /\ ExactSoFar(-1))
             => value'[call.recv] = before[call.recv]
        /\ MultiplyByZero =>
             value'[call'.recv] = IF IsFinite(value[call'.recv]) THEN Zero ELSE NaN ]_vars

\* after add(5) and subtract(5) on a register that held 0
C23_Witness ==
    /\ call.op = "subtract"
    /\ call.error = NoError
    /\ call.arg = Num(5)
    /\ before[call.recv] = Num(5)
    /\ value[call.recv] = Zero
    /\ hist[call.recv] = Untracked

\* C24: every string that isValidEmail accepts contains exactly one '@',
\* contains no white-space character, does not start with '@', and has
\* after the '@' a '.' that is neither the first character after the '@'
\* nor the last character of the string.
C24_AcceptedEmails ==
    (util.fn = "isValidEmail" /\ util.done /\ util.out = TRUE) =>
        LET t == util.email
            ats == {p \in 1..Len(t) : t[p] = "@"}
        IN  /\ Cardinality(ats) = 1
            /\ \A p \in 1..Len(t) : t[p] \notin WhiteSpace
            /\ t[1] # "@"
            /\ \E j \in 1..Len(t) :
                 /\ t[j] = "."
                 /\ \A a \in ats : a + 1 < j
                 /\ j < Len(t)

\* an accepted string whose part before the '@' is a single dot
C24_Witness ==
    /\ util.fn = "isValidEmail"
    /\ util.done
    /\ util.email = <<".", "@", "u", ".", "u">>
    /\ util.out = TRUE

\* C25: capitalize is idempotent, capitalize(capitalize(s)) = capitalize(s)
\* for every string s, and a string whose first character is already upper
\* case is returned unchanged.
C25_CapitalizeIdempotent ==
    (util.fn = "capitalize" /\ util.done) =>
        /\ capitalize(util.out) = util.out
        /\ (util.str # <<>> /\ toUpperCase(util.str[1]) = <<util.str[1]>>) =>
              util.out = util.str

\* the first character becomes two characters, and a second call leaves
\* them alone
C25_Witness ==
    /\ util.fn = "capitalize"
    /\ util.done
    /\ util.str = <<"sz", "a">>
    /\ util.out = <<"S", "S", "a">>
    /\ capitalize(util.out) = util.out

====
